---- MODULE Spec2Model ----
(***************************************************************************)
(* Conversion dispatch and fallback engine of the MCP document converter:  *)
(* DocumentConverter (src/src/converter.ts, second definition, lines       *)
(* 436-1010) and ImageConverter (src/src/image-converter.ts).              *)
(*                                                                         *)
(* One request runs at a time; every await of the code is a step.  What an *)
(* external collaborator (subprocess, codec, browser, file system) answers *)
(* is chosen nondeterministically at the step that observes it.            *)
(***************************************************************************)
EXTENDS Integers, Sequences, FiniteSets, TLC

\* ---------------------------------------------------------------- bounds
MaxSize == 2          \* largest file size (abstract units) a writer produces
MaxLen == 3           \* longest text of the round-trip check, in characters
MaxRatioSize == 12    \* largest of the small file sizes of the ratio check
MaxFiles == 2         \* largest number of entries of a batch input directory

\* ------------------------------------------------------- format detection
\* Extensions of the input paths considered (already lowercased: the code
\* applies toLowerCase() to path.extname).  "" is a path without extension.
Exts ==
  {".pdf", ".docx", ".doc", ".html", ".htm", ".md", ".markdown", ".txt",
   ".jpg", ".jpeg", ".png", ".webp", ".avif", ".tiff", ".tif", ".gif",
   ".bmp", ".svg", ".heic", ".heif", ".ico", ".dotx", ".xhtml", ""}

\* mime.lookup(filePath) for the extensions the switch does not recognise:
\* top/sub are the two sides of '/', has the probe words the type contains.
\* top = "" stands for the result false.
NoMime == [top |-> "", sub |-> "", has |-> {}]

\* (variant: the content-type lookup knows no extension)
mimeLookup_None(ext) == NoMime

mimeLookup(ext) ==
  CASE ext = ".ico"   -> [top |-> "image", sub |-> "vnd.microsoft.icon", has |-> {}]
    [] ext = ".dotx"  -> [top |-> "application",
                          sub |-> "vnd.openxmlformats-officedocument.wordprocessingml.template",
                          has |-> {"word"}]
    [] ext = ".xhtml" -> [top |-> "application", sub |-> "xhtml+xml", has |-> {"html"}]
    [] OTHER          -> NoMime

detectFormat(ext) ==
  CASE ext = ".pdf"                 -> "pdf"
    [] ext = ".docx"                -> "docx"
    [] ext = ".doc"                 -> "doc"
    [] ext \in {".html", ".htm"}    -> "html"
    [] ext \in {".md", ".markdown"} -> "md"
    [] ext = ".txt"                 -> "txt"
    [] ext \in {".jpg", ".jpeg"}    -> "jpeg"
    [] ext = ".png"                 -> "png"
    [] ext = ".webp"                -> "webp"
    [] ext = ".avif"                -> "avif"
    [] ext \in {".tiff", ".tif"}    -> "tiff"
    [] ext = ".gif"                 -> "gif"
    [] ext = ".bmp"                 -> "bmp"
    [] ext = ".svg"                 -> "svg"
    [] ext = ".heic"                -> "heic"
    [] ext = ".heif"                -> "heif"
    [] OTHER ->
         LET m == mimeLookup(ext) IN
         IF m.top # "" /\ "pdf" \in m.has THEN "pdf"
         ELSE IF m.top # "" /\ "word" \in m.has THEN "docx"
         ELSE IF m.top # "" /\ "html" \in m.has THEN "html"
         ELSE IF m.top = "image" THEN m.sub
         ELSE "txt"

detectImageFormat(ext) ==
  CASE ext \in {".jpg", ".jpeg"}    -> "jpeg"
    [] ext = ".png"                 -> "png"
    [] ext = ".webp"                -> "webp"
    [] ext = ".avif"                -> "avif"
    [] ext \in {".tiff", ".tif"}    -> "tiff"
    [] ext = ".gif"                 -> "gif"
    [] ext = ".bmp"                 -> "bmp"
    [] ext = ".svg"                 -> "svg"
    [] ext = ".heic"                -> "heic"
    [] ext = ".heif"                -> "heif"
    [] OTHER ->
         LET m == mimeLookup(ext) IN
         IF m.top = "image" THEN m.sub ELSE "unknown"

\* ------------------------------------------------------ conversion matrix
getSupportedImageFormats ==
  [input_formats  |-> {"jpg", "jpeg", "png", "webp", "avif", "tiff", "tif",
                       "gif", "bmp", "svg", "heic", "heif"},
   output_formats |-> {"jpg", "jpeg", "png", "webp", "avif", "tiff", "gif",
                       "bmp", "pdf"}]

ImageRows ==
  {"jpg", "jpeg", "png", "webp", "avif", "tiff", "gif", "bmp", "svg", "heic", "heif"}

\* (variant: a pdf source may also target docx)
conversion_matrix_PdfToDocx ==
  [s \in {"pdf", "docx", "html", "md", "txt"} \cup ImageRows |->
     CASE s = "pdf"  -> {"txt", "md", "html", "docx"}
       [] s = "docx" -> {"txt", "md", "html", "pdf"}
       [] s = "html" -> {"txt", "md", "pdf"}
       [] s = "md"   -> {"html", "pdf", "txt"}
       [] s = "txt"  -> {"html", "md", "pdf"}
       [] OTHER      -> getSupportedImageFormats.output_formats]

conversion_matrix ==
  [s \in {"pdf", "docx", "html", "md", "txt"} \cup ImageRows |->
     CASE s = "pdf"  -> {"txt", "md", "html"}
       [] s = "docx" -> {"txt", "md", "html", "pdf"}
       [] s = "html" -> {"txt", "md", "pdf"}
       [] s = "md"   -> {"html", "pdf", "txt"}
       [] s = "txt"  -> {"html", "md", "pdf"}
       [] OTHER      -> getSupportedImageFormats.output_formats]

InMatrix(src, tgt) ==
  src \in DOMAIN conversion_matrix /\ tgt \in conversion_matrix[src]

\* the list convertDocument tests the detected tag against
imageFormats ==
  {"jpeg", "jpg", "png", "webp", "avif", "tiff", "gif", "bmp", "svg", "heic", "heif"}

\* target tags a caller may pass ("xyz" is a tag no writer knows)
Targets ==
  {"txt", "md", "html", "pdf", "docx", "jpeg", "jpg", "png", "webp", "avif",
   "tiff", "gif", "bmp", "svg", "xyz"}

\* ------------------------------------------------------------------ state
VARIABLES
  platform,   \* process.platform, fixed for the life of the process
  pc,         \* position of the request in flight
  req,        \* the request: entry point, input extension, target, options
  out,        \* the files at the output paths, keyed by output name
  outDir,     \* TRUE once the output's parent directory was ensured
  trace,      \* external effects of the request, in the order they were started
  s1,         \* what strategy 1 (Word automation) observed and answered
  s2,         \* what strategy 2 (helper script) observed and answered
  content,    \* intermediate document representation of readDocument
  err,        \* cause text of the exception being propagated ("" = none)
  browser,    \* the local handle `browser` of the PDF path is set
  browsers,   \* number of launched browsers that are still open
  result,     \* what the public call gave back to its caller
  batch,      \* locals of batchConvertImages
  parked      \* locals of a second call in flight while this one is stepping

vars == <<platform, pc, req, out, outDir, trace, s1, s2, content, err,
          browser, browsers, result, batch, parked>>

Platforms == {"win32", "linux"}

\* image options as far as the pipeline's control flow tests them
ImageOptions == [resize : BOOLEAN, effects : BOOLEAN, watermark : BOOLEAN]
NoOptions == [resize |-> FALSE, effects |-> FALSE, watermark |-> FALSE]

\* characters of a text: a letter, an asterisk, a heading marker, a newline
Alphabet == {"a", "*", "#", "nl"}
\* the text of the input of a document request
SampleText == <<"#", "a", "*">>

\* ---------------------------------------------------------------- resize
\* len * num / den rounded to the nearest integer
Scaled(len, num, den) == (2 * len * num + den) \div (2 * den)

\* sharp's resize(w, h, {fit}) of an iw x ih raster; 0 stands for an absent
\* width or height, which follows from the aspect ratio
sharpResize(iw, ih, w, h, fit) ==
  IF w = 0 /\ h = 0 THEN <<iw, ih>>
  ELSE IF w = 0 THEN <<Scaled(iw, h, ih), h>>
  ELSE IF h = 0 THEN <<w, Scaled(ih, w, iw)>>
  ELSE IF fit \in {"cover", "contain", "fill"} THEN <<w, h>>
  ELSE IF (fit = "inside") = (w * ih <= h * iw)
  THEN <<w, Scaled(ih, w, iw)>>
  ELSE <<Scaled(iw, h, ih), h>>

\* Jimp's image.resize(w || AUTO, h || AUTO): no fit mode
jimpResize(iw, ih, w, h) ==
  IF w = 0 /\ h = 0 THEN <<iw, ih>>
  ELSE IF w = 0 THEN <<Scaled(iw, h, ih), h>>
  ELSE IF h = 0 THEN <<w, Scaled(ih, w, iw)>>
  ELSE <<w, h>>

\* `options.fit || 'inside'`
FitOf(o) == IF o.fit = "" THEN "inside" ELSE o.fit

\* the raster size the writer w leaves, for a request that states the size
\* of its input (iw, ih) and the geometry options
OutputSize(w) ==
  IF "iw" \notin DOMAIN req THEN <<0, 0>>
  ELSE LET o == req.opts IN
       IF w = "sharp" /\ req.ext = ".svg"
       THEN IF o.width = 0 /\ o.height = 0 THEN <<req.iw, req.ih>>
            ELSE sharpResize(req.iw, req.ih,
                             IF o.width = 0 THEN 800 ELSE o.width,
                             IF o.height = 0 THEN 600 ELSE o.height, FitOf(o))
       ELSE IF w = "sharp"
       THEN sharpResize(req.iw, req.ih, o.width, o.height, FitOf(o))
       ELSE IF w = "jimp"
       THEN jimpResize(req.iw, req.ih, o.width, o.height)
       ELSE <<0, 0>>

\* ------------------------------------------------------- numeric options
\* an option the caller left out (undefined)
Unset == 0 - 1
DefaultQuality == 80
DefaultEffort == 4
\* opacities are counted in tenths: the default 0.8 is 8
DefaultOpacity == 8

\* `v || d`: d replaces v when v is falsy, that is undefined or 0
OrDefault(v, d) == IF v = Unset \/ v = 0 THEN d ELSE v

\* nothing was handed to an encoder or compositor
NoArgs == [quality |-> Unset, effort |-> Unset, opacity |-> Unset]

\* the numbers the writer w hands to its encoder and to the watermark
\* compositor, for a request that states its numeric options: sharp's
\* jpeg/png/webp/avif/tiff encoders and addWatermark's text overlay, Jimp's
\* image.quality for a jpeg target
encoderArgs(w) ==
  IF "effort" \notin DOMAIN req.opts THEN NoArgs
  ELSE LET o == req.opts IN
       IF w = "sharp"
       THEN [quality |-> IF req.target \in {"jpeg", "jpg", "png", "webp",
                                            "avif", "tiff"}
                         THEN OrDefault(o.quality, DefaultQuality) ELSE Unset,
             effort |-> IF req.target \in {"webp", "avif"}
                        THEN OrDefault(o.effort, DefaultEffort) ELSE Unset,
             opacity |-> IF o.watermark /\ req.ext # ".svg"
                         THEN OrDefault(o.opacity, DefaultOpacity) ELSE Unset]
       ELSE IF w = "jimp"
       THEN [NoArgs EXCEPT !.quality =
               IF OrDefault(o.quality, 0) # 0 /\ req.target \in {"jpeg", "jpg"}
               THEN o.quality ELSE Unset]
       ELSE NoArgs

\* paths: the output of a single call, the outputs of a chain or a batch,
\* and the first input of a chain of calls
OutKeys == {"out", "a", "b", "in"}

\* a file at an output path: by names the writer, enc the encoding it selected
\* and from the extension of the input file it was converted from
\* (data is the text of a text file, as a sequence of characters; dims the
\* width and height of a raster, <<0, 0>> where they are not followed)
Absent ==
  [exists |-> FALSE, size |-> 0, by |-> "", enc |-> "", from |-> "",
   data |-> <<>>, dims |-> <<0, 0>>, args |-> NoArgs]
File(n, w, e) ==
  [exists |-> TRUE, size |-> n, by |-> w, enc |-> e, from |-> req.ext,
   data |-> <<>>, dims |-> OutputSize(w), args |-> encoderArgs(w)]
\* what may lie at the output path before a request starts
PreFiles ==
  {Absent, [File(0, "pre", "") EXCEPT !.from = ""],
   [File(1, "pre", "") EXCEPT !.from = ""]}

NoStrategy == [res |-> "none", code |-> 0 - 2, ex |-> FALSE, sz |-> 0]
NoContent == [text |-> <<>>, html |-> <<>>]
NoResult == [status |-> "pending", success |-> FALSE, prefix |-> "", cause |-> ""]
NoBatch ==
  [listing |-> <<>>, files |-> <<>>, i |-> 0, success |-> 0, failed |-> 0,
   results |-> <<>>]

\* no second call
NoCall == [pc |-> "none"]

Returned(ok, prefix, cause) ==
  [status |-> "returned", success |-> ok, prefix |-> prefix, cause |-> cause]

Init ==
  /\ platform \in Platforms
  /\ pc = "idle"
  /\ req = [api |-> "", ext |-> "", target |-> "", opts |-> NoOptions,
            okey |-> "out", opath |-> "out", osize |-> 0,
             exists |-> TRUE, data |-> <<>>]
  /\ out = [k \in OutKeys |-> Absent]
  /\ outDir = FALSE
  /\ trace = <<>>
  /\ s1 = NoStrategy
  /\ s2 = NoStrategy
  /\ content = NoContent
  /\ err = ""
  /\ browser = FALSE
  /\ browsers = 0
  /\ result = NoResult
  /\ batch = NoBatch
  /\ parked = NoCall

Out == out[req.okey]
Free == pc = "idle"

\* locals of a request that has just been accepted
Fresh ==
  /\ trace' = <<>>
  /\ s1' = NoStrategy
  /\ s2' = NoStrategy
  /\ content' = NoContent
  /\ err' = ""
  /\ browser' = FALSE

\* --------------------------------------------------------- convertDocument
\* catch block of convertDocument
ConversionFailed(cause) == Returned(FALSE, "Conversion failed: ", cause)

\* (variant: the output directory is ensured before the input is checked)
convertDocument_DirFirst ==
  /\ Free
  /\ \E ext \in Exts, tgt \in Targets, o \in ImageOptions, exists \in BOOLEAN,
        pre \in PreFiles, n \in 0..MaxSize :
       /\ req' = [api |-> "convertDocument", ext |-> ext, target |-> tgt,
                  opts |-> o, okey |-> "out", opath |-> "out", osize |-> n,
                  exists |-> exists, data |-> SampleText]
       /\ out' = [k \in OutKeys |-> IF k = "out" THEN pre ELSE Absent]
       /\ Fresh
       /\ batch' = NoBatch
       /\ outDir' = TRUE
       /\ IF ~exists
          THEN /\ result' = ConversionFailed("Input file does not exist")
               /\ pc' = "done"
          ELSE /\ result' = NoResult
               /\ pc' = IF detectFormat(ext) = "docx" /\ tgt = "pdf"
                        THEN "wordcom" ELSE "dispatch"
  /\ UNCHANGED <<parked, platform, browsers>>

\* entry of convertDocument up to the DOCX->PDF branch
convertDocument ==
  /\ Free
  /\ \E ext \in Exts, tgt \in Targets, o \in ImageOptions, exists \in BOOLEAN,
        pre \in PreFiles, n \in 0..MaxSize :
       /\ req' = [api |-> "convertDocument", ext |-> ext, target |-> tgt,
                  opts |-> o, okey |-> "out", opath |-> "out", osize |-> n,
                  exists |-> exists, data |-> SampleText]
       /\ out' = [k \in OutKeys |-> IF k = "out" THEN pre ELSE Absent]
       /\ Fresh
       /\ batch' = NoBatch
       /\ IF ~exists
          THEN /\ result' = ConversionFailed("Input file does not exist")
               /\ outDir' = FALSE
               /\ pc' = "done"
          ELSE /\ result' = NoResult
               /\ outDir' = TRUE
               /\ pc' = IF detectFormat(ext) = "docx" /\ tgt = "pdf"
                        THEN "wordcom" ELSE "dispatch"
  /\ UNCHANGED <<parked, platform, browsers>>

\* what a subprocess may leave at the target path
Effects == {"none", "empty", "nonempty"}
\* -1: the 'error' event (the command could not be started)
ExitCodes == {0 - 1, 0, 1}

Effect(f, eff, who) ==
  CASE eff = "none"     -> f
    [] eff = "empty"    -> File(0, who, "pdf")
    [] eff = "nonempty" -> File(1, who, "pdf")

ExitEvent(cmd, code) ==
  IF code = 0 - 1 THEN cmd \o ":error"
  ELSE IF code = 0 THEN cmd \o ":exit0" ELSE cmd \o ":exitN"

\* strategy 1, up to the spawn of cscript
convertDocxToPdfViaWordCom ==
  /\ pc = "wordcom"
  /\ IF platform # "win32"
     THEN /\ s1' = [NoStrategy EXCEPT !.res = "false"]
          /\ pc' = "python"
          /\ UNCHANGED trace
     ELSE \E prepared \in BOOLEAN :
            IF prepared
            THEN /\ trace' = Append(trace, "cscript:spawn")
                 /\ pc' = "wordcom_run"
                 /\ UNCHANGED s1
            ELSE /\ s1' = [NoStrategy EXCEPT !.res = "false"]
                 /\ pc' = "python"
                 /\ UNCHANGED trace
  /\ UNCHANGED <<parked, platform, req, out, outDir, s2, content, err, browser,
                 browsers, result, batch>>

\* (variant: the gate without the size check)
WordComGate_NoSize(code, f) == code = 0 /\ f.exists

\* the size gate of strategy 1's close handler
WordComGate(code, f) == code = 0 /\ f.exists /\ f.size > 0

\* strategy 1: the 'error' and 'close' handlers of the cscript process and
\* the return into convertDocument
WordComClose ==
  /\ pc = "wordcom_run"
  /\ \E code \in ExitCodes, eff \in Effects, vanished \in BOOLEAN :
       LET f == IF code = 0 - 1 THEN Out ELSE Effect(Out, eff, "cscript") IN
       /\ trace' = Append(trace, ExitEvent("cscript", code))
       /\ IF code = 0 /\ f.exists /\ vanished
          THEN \* fs.stat rejects inside the async handler: never resolved
               /\ out' = [out EXCEPT ![req.okey] = Absent]
               /\ s1' = [res |-> "hung", code |-> code, ex |-> TRUE, sz |-> 0]
               /\ result' = [NoResult EXCEPT !.status = "hung"]
               /\ pc' = "hung"
          ELSE /\ vanished = FALSE
               /\ out' = [out EXCEPT ![req.okey] = f]
               /\ s1' = [res |-> IF WordComGate(code, f) THEN "true" ELSE "false",
                         code |-> code, ex |-> f.exists, sz |-> f.size]
               /\ IF WordComGate(code, f)
                  THEN /\ result' = Returned(TRUE, "via Microsoft Word (COM)", "")
                       /\ pc' = "done"
                  ELSE /\ result' = result
                       /\ pc' = "python"
  /\ UNCHANGED <<parked, platform, req, outDir, s2, content, err, browser, browsers, batch>>

\* strategy 2, up to the spawn of the first interpreter
convertDocxToPdfViaPython ==
  /\ pc = "python"
  /\ \E scriptExists \in BOOLEAN :
       IF scriptExists
       THEN /\ trace' = Append(trace, "python:spawn")
            /\ pc' = "python_run"
            /\ UNCHANGED s2
       ELSE /\ s2' = [NoStrategy EXCEPT !.res = "false"]
            /\ pc' = "dispatch"
            /\ UNCHANGED trace
  /\ UNCHANGED <<parked, platform, req, out, outDir, s1, content, err, browser,
                 browsers, result, batch>>

\* the check after the interpreters: ok, pathExists, stat, size > 0 (a stat
\* that rejects is caught and answers false)
PythonGate(code, f) == code = 0 /\ f.exists /\ f.size > 0

\* (variant: a failed strategy 2 ends the request with a failure)
PythonAnswer_FailureEnds(cmd, code, f) ==
  /\ out' = [out EXCEPT ![req.okey] = f]
  /\ IF code # 0 /\ cmd = "python"
     THEN /\ trace' = trace \o <<ExitEvent(cmd, code), "py:spawn">>
          /\ pc' = "py_run"
          /\ UNCHANGED <<s2, result>>
     ELSE /\ trace' = Append(trace, ExitEvent(cmd, code))
          /\ s2' = [res |-> IF PythonGate(code, f) THEN "true" ELSE "false",
                    code |-> code, ex |-> f.exists, sz |-> f.size]
          /\ pc' = "done"
          /\ result' = IF PythonGate(code, f)
                       THEN Returned(TRUE, "via DocumentAssistant script", "")
                       ELSE Returned(FALSE, "Conversion failed: ", "helper script failed")

\* strategy 2: answer of run(cmd) and what follows it
PythonAnswer(cmd, code, f) ==
  /\ out' = [out EXCEPT ![req.okey] = f]
  /\ IF code # 0 /\ cmd = "python"
     THEN \* ok is false: run('py', ['-3', ...args])
          /\ trace' = trace \o <<ExitEvent(cmd, code), "py:spawn">>
          /\ pc' = "py_run"
          /\ UNCHANGED <<s2, result>>
     ELSE /\ trace' = Append(trace, ExitEvent(cmd, code))
          /\ s2' = [res |-> IF PythonGate(code, f) THEN "true" ELSE "false",
                    code |-> code, ex |-> f.exists, sz |-> f.size]
          /\ IF PythonGate(code, f)
             THEN /\ result' = Returned(TRUE, "via DocumentAssistant script", "")
                  /\ pc' = "done"
             ELSE /\ result' = result
                  /\ pc' = "dispatch"

\* the file the check of strategy 2 finds after cmd has ended; vanished: the
\* file is removed between pathExists and stat
AfterRun(cmd, code, eff, vanished) ==
  IF code = 0 - 1 THEN Out
  ELSE IF code = 0 /\ vanished THEN Absent
  ELSE Effect(Out, eff, cmd)

PythonClose ==
  /\ pc = "python_run"
  /\ \E code \in ExitCodes, eff \in Effects, vanished \in BOOLEAN :
       /\ vanished => (code = 0 /\ Effect(Out, eff, "python").exists)
       /\ PythonAnswer("python", code, AfterRun("python", code, eff, vanished))
  /\ UNCHANGED <<parked, platform, req, outDir, s1, content, err, browser, browsers, batch>>

PyClose ==
  /\ pc = "py_run"
  /\ \E code \in ExitCodes, eff \in Effects, vanished \in BOOLEAN :
       /\ vanished => (code = 0 /\ Effect(Out, eff, "py").exists)
       /\ PythonAnswer("py", code, AfterRun("py", code, eff, vanished))
  /\ UNCHANGED <<parked, platform, req, outDir, s1, content, err, browser, browsers, batch>>

\* a subprocess that emits neither 'error' nor 'close': run() awaits the two
\* events only, no timer is set and the process is never killed, so the
\* promise stays pending and so does the request
SubprocessNeverExits ==
  /\ pc \in {"wordcom_run", "python_run", "py_run"}
  /\ LET cmd == CASE pc = "wordcom_run" -> "cscript"
                   [] pc = "python_run"  -> "python"
                   [] pc = "py_run"      -> "py"
     IN trace' = Append(trace, cmd \o ":noexit")
  /\ IF pc = "wordcom_run"
     THEN s1' = [NoStrategy EXCEPT !.res = "hung"] /\ UNCHANGED s2
     ELSE s2' = [NoStrategy EXCEPT !.res = "hung"] /\ UNCHANGED s1
  /\ result' = [NoResult EXCEPT !.status = "hung"]
  /\ pc' = "hung"
  /\ UNCHANGED <<parked, platform, req, out, outDir, content, err, browser, browsers,
                 batch>>

\* ------------------------------------------------- text document pipeline
\* marked(md): Markdown to HTML; a leading heading marker opens a heading,
\* anything else a paragraph, and the empty text gives the empty string
marked(md) ==
  IF md = <<>> THEN <<>>
  ELSE IF Head(md) = "#" THEN <<"<h1>">> \o Tail(md) \o <<"</h1>", "nl">>
  ELSE <<"<p>">> \o md \o <<"</p>", "nl">>

\* turndown(html): HTML to Markdown (headingStyle atx); tags are replaced by
\* their Markdown, characters with a Markdown meaning are escaped, and line
\* breaks inside and around the text are collapsed
RECURSIVE turndown(_)
turndown(html) ==
  IF html = <<>> THEN <<>>
  ELSE LET c == Head(html)
           md == CASE c = "<h1>" -> <<"#">>
                   [] c \in {"</h1>", "<p>", "</p>", "nl"} -> <<>>
                   [] c \in {"*", "#"} -> <<"\\", c>>
                   [] OTHER -> <<c>>
       IN md \o turndown(Tail(html))

\* intermediate representation per source tag, from the text of the input;
\* <<>> is an absent (or empty, equally falsy) html
readContent(format, data) ==
  CASE format = "pdf"  -> [text |-> data, html |-> <<>>]
    [] format = "docx" -> [text |-> data, html |-> <<"<p>">> \o data \o <<"</p>">>]
    [] format = "html" -> [text |-> turndown(data), html |-> data]
    [] format = "md"   -> [text |-> data, html |-> marked(data)]
    [] OTHER           -> [text |-> data, html |-> <<>>]

\* read stage of convertDocument for a tag that is not an image tag
readDocument ==
  /\ pc = "dispatch"
  /\ detectFormat(req.ext) \notin imageFormats
  /\ \E ok \in BOOLEAN :
       IF ok
       THEN /\ content' = readContent(detectFormat(req.ext), req.data)
            /\ trace' = Append(trace, "readFile")
            /\ pc' = "write"
            /\ UNCHANGED result
       ELSE /\ result' = ConversionFailed("read error")
            /\ trace' = Append(trace, "readFile")
            /\ pc' = "done"
            /\ UNCHANGED content
  /\ UNCHANGED <<parked, platform, req, out, outDir, s1, s2, err, browser, browsers, batch>>

Max(a, b) == IF a > b THEN a ELSE b

\* (variant: the txt writer re-renders the derived HTML when there is one)
written_Rendered(c, format) ==
  CASE format = "txt" -> IF c.html # <<>> THEN turndown(c.html) ELSE c.text
    [] format = "md" -> IF c.html # <<>> THEN turndown(c.html) ELSE c.text
    [] format = "html" ->
         <<"<html>">> \o (IF c.html # <<>> THEN c.html ELSE marked(c.text))
           \o <<"</html>">>
    [] OTHER -> <<>>

\* the string handed to fs.writeFile per target (a docx is not a text)
written(c, format) ==
  CASE format = "txt" -> c.text
    [] format = "md" -> IF c.html # <<>> THEN turndown(c.html) ELSE c.text
    [] format = "html" ->
         <<"<html>">> \o (IF c.html # <<>> THEN c.html ELSE marked(c.text))
           \o <<"</html>">>
    [] OTHER -> <<>>

\* (variant: every call writes through one shared path)
writeDocument_SharedPath ==
  /\ pc = "write"
  /\ req.target # "pdf"
  /\ IF req.target \in {"txt", "md", "html", "docx"}
     THEN \E ok \in BOOLEAN :
            IF ok
            THEN /\ out' = [out EXCEPT !["a"] =
                      [(IF req.target \in {"txt", "md"}
                        THEN File(req.osize, "writeFile", req.target)
                        ELSE File(Max(1, req.osize), "writeFile", req.target))
                       EXCEPT !.data = written(content, req.target)]]
                 /\ trace' = Append(trace, "writeFile")
                 /\ result' = Returned(TRUE, "Successfully converted", "")
            ELSE /\ result' = ConversionFailed("write error")
                 /\ trace' = Append(trace, "writeFile")
                 /\ UNCHANGED out
     ELSE /\ result' = ConversionFailed("Unsupported output format")
          /\ UNCHANGED <<out, trace>>
  /\ pc' = "done"
  /\ UNCHANGED <<parked, platform, req, outDir, s1, s2, content, err, browser, browsers, batch>>

\* write stage for the targets that end in fs.writeFile (txt, md, html, docx)
\* and the default branch of the switch
writeDocument ==
  /\ pc = "write"
  /\ req.target # "pdf"
  /\ IF req.target \in {"txt", "md", "html", "docx"}
     THEN \E ok \in BOOLEAN :
            IF ok
            THEN /\ out' = [out EXCEPT ![req.okey] =
                      [(IF req.target \in {"txt", "md"}
                        THEN File(req.osize, "writeFile", req.target)
                        ELSE File(Max(1, req.osize), "writeFile", req.target))
                       EXCEPT !.data = written(content, req.target)]]
                 /\ trace' = Append(trace, "writeFile")
                 /\ result' = Returned(TRUE, "Successfully converted", "")
            ELSE /\ result' = ConversionFailed("write error")
                 /\ trace' = Append(trace, "writeFile")
                 /\ UNCHANGED out
     ELSE /\ result' = ConversionFailed("Unsupported output format")
          /\ UNCHANGED <<out, trace>>
  /\ pc' = "done"
  /\ UNCHANGED <<parked, platform, req, outDir, s1, s2, content, err, browser, browsers, batch>>

\* ------------------------------------------------------ rendering browser
\* puppeteer.launch inside the try block
Launch(here, next, fin) ==
  /\ pc = here
  /\ \E ok \in BOOLEAN :
       IF ok
       THEN /\ browser' = TRUE
            /\ browsers' = browsers + 1
            /\ trace' = Append(trace, "browser:launch")
            /\ pc' = next
            /\ UNCHANGED err
       ELSE /\ err' = "browser launch error"
            /\ pc' = fin
            /\ UNCHANGED <<browser, browsers, trace>>
  /\ UNCHANGED <<parked, platform, req, out, outDir, s1, s2, content, result, batch>>

\* an awaited call on the page that may reject (newPage, setContent)
PageStep(here, next, fin, cause) ==
  /\ pc = here
  /\ \E ok \in BOOLEAN :
       IF ok THEN pc' = next /\ UNCHANGED err
       ELSE pc' = fin /\ err' = cause
  /\ UNCHANGED <<parked, platform, req, out, outDir, trace, s1, s2, content, browser,
                 browsers, result, batch>>

\* the markup convertToPdf loads into the page: the HTML of the content,
\* or the text rendered by marked when there is no HTML or when
\* options.preserve_formatting === false
renderedHtml(c, o) ==
  IF c.html = <<>>
     \/ ("preserve_formatting" \in DOMAIN o /\ o.preserve_formatting = "false")
  THEN marked(c.text)
  ELSE c.html

\* page.pdf({path: outputPath, ...}); data is the markup the page was
\* loaded with on the document path
Emit(here, fin) ==
  /\ pc = here
  /\ \E ok \in BOOLEAN, n \in 1..MaxSize :
       IF ok
       THEN /\ out' = [out EXCEPT ![req.okey] =
                        [File(n, "puppeteer", "pdf") EXCEPT !.data =
                           IF here = "pdf_emit"
                           THEN renderedHtml(content, req.opts) ELSE <<>>]]
            /\ trace' = Append(trace, "page.pdf")
            /\ UNCHANGED err
       ELSE /\ n = 1
            /\ err' = "pdf emission error"
            /\ UNCHANGED <<out, trace>>
  /\ pc' = fin
  /\ UNCHANGED <<parked, platform, req, outDir, s1, s2, content, browser, browsers,
                 result, batch>>

\* (variant: the browser is closed at the end of the try block only)
CloseBrowser_TryOnly ==
  /\ browser' = IF err = "" THEN FALSE ELSE browser
  /\ browsers' = IF browser /\ err = "" THEN browsers - 1 ELSE browsers

\* finally { if (browser) await browser.close() }
CloseBrowser ==
  /\ browser' = FALSE
  /\ browsers' = IF browser THEN browsers - 1 ELSE browsers

\* convertToPdf, reached from writeDocument's case 'pdf'
convertToPdfLaunch == pc = "write" /\ req.target = "pdf" /\ Launch("write", "pdf_page", "pdf_finally")
convertToPdfNewPage == PageStep("pdf_page", "pdf_content", "pdf_finally", "new page error")
convertToPdfSetContent == PageStep("pdf_content", "pdf_emit", "pdf_finally", "content load error")
convertToPdfEmit == Emit("pdf_emit", "pdf_finally")

\* finally block of convertToPdf and the return through writeDocument into
\* convertDocument (its success result or its catch block)
convertToPdfFinally ==
  /\ pc = "pdf_finally"
  /\ CloseBrowser
  /\ result' = IF err = "" THEN Returned(TRUE, "Successfully converted", "")
               ELSE ConversionFailed(err)
  /\ err' = ""
  /\ pc' = "done"
  /\ UNCHANGED <<parked, platform, req, out, outDir, trace, s1, s2, content, batch>>

\* ---------------------------------------------------------- image pipeline
\* catch block of convertImage
ImageFailed(cause) == Returned(FALSE, "Image conversion failed: ", cause)

\* targets for which the code selects an encoder of the primary codec
SharpFormats == {"jpeg", "jpg", "png", "webp", "avif", "tiff"}

\* the calls `options.width || options.height` and `options.effects` guard
Resize(codec, o) == IF o.resize THEN <<codec \o ":resize">> ELSE <<>>
EffectCalls(codec, o) == IF o.effects THEN <<codec \o ":effects">> ELSE <<>>

\* the output_path member of every result of convertImage
WithPath(res, outputPath) ==
  [f \in DOMAIN res \cup {"output_path"} |->
     IF f = "output_path" THEN outputPath ELSE res[f]]

\* where the result of convertImage goes: to the caller of the public call,
\* or into the result list of the batch loop
FinishAt(res, outputPath) ==
  IF req.api = "batchConvertImages"
  THEN /\ batch' = [batch EXCEPT !.results =
                                   Append(@, WithPath(res, outputPath)),
                                 !.success = IF res.success THEN @ + 1 ELSE @,
                                 !.failed = IF res.success THEN @ ELSE @ + 1,
                                 !.i = @ + 1]
       /\ pc' = "batch_loop"
       /\ UNCHANGED result
  ELSE /\ result' = res
       /\ pc' = "done"
       /\ UNCHANGED batch

Finish(res) == FinishAt(res, req.opath)

\* entry of the public call convertImage
convertImage ==
  /\ Free
  /\ \E ext \in Exts, tgt \in Targets, o \in ImageOptions, exists \in BOOLEAN,
        pre \in PreFiles, n \in 0..MaxSize :
       /\ req' = [api |-> "convertImage", ext |-> ext, target |-> tgt,
                  opts |-> o, okey |-> "out", opath |-> "out", osize |-> n,
                  exists |-> exists, data |-> <<>>]
       /\ out' = [k \in OutKeys |-> IF k = "out" THEN pre ELSE Absent]
       /\ Fresh
       /\ batch' = NoBatch
       /\ IF ~exists
          THEN /\ result' = ImageFailed("Input file does not exist")
               /\ outDir' = FALSE
               /\ pc' = "done"
          ELSE /\ result' = NoResult
               /\ outDir' = TRUE
               /\ pc' = "pi"
  /\ UNCHANGED <<parked, platform, browsers>>

\* optimizeImage: convertImage with the detected tag as target and
\* {quality, progressive} as options
optimizeImage ==
  /\ Free
  /\ \E ext \in Exts, exists \in BOOLEAN, pre \in PreFiles, n \in 0..MaxSize :
       /\ req' = [api |-> "optimizeImage", ext |-> ext,
                  target |-> detectImageFormat(ext),
                  opts |-> NoOptions, okey |-> "out", opath |-> "out", osize |-> n,
                  exists |-> exists, data |-> <<>>]
       /\ out' = [k \in OutKeys |-> IF k = "out" THEN pre ELSE Absent]
       /\ Fresh
       /\ batch' = NoBatch
       /\ IF ~exists
          THEN /\ result' = ImageFailed("Input file does not exist")
               /\ outDir' = FALSE
               /\ pc' = "done"
          ELSE /\ result' = NoResult
               /\ outDir' = TRUE
               /\ pc' = "pi"
  /\ UNCHANGED <<parked, platform, browsers>>

\* convertDocument handing an image tag to imageConverter.convertImage
convertDocumentImage ==
  /\ pc = "dispatch"
  /\ detectFormat(req.ext) \in imageFormats
  /\ pc' = "pi"
  /\ UNCHANGED <<parked, platform, req, out, outDir, trace, s1, s2, content, err,
                 browser, browsers, result, batch>>

\* calls on the primary pipeline before the switch on the target
BuiltCalls(o) == <<"sharp:open">> \o Resize("sharp", o) \o EffectCalls("sharp", o)

\* (variant: the watermark is composited before the resize)
SharpCalls_WatermarkFirst(o) ==
  <<"sharp:open">> \o (IF o.watermark THEN <<"sharp:composite">> ELSE <<>>)
    \o Resize("sharp", o) \o EffectCalls("sharp", o) \o <<"sharp:format">>

\* calls on the primary pipeline for a target with an encoder of its own:
\* resize, effects, the encoder of the switch, then addWatermark
SharpCalls(o) ==
  BuiltCalls(o) \o <<"sharp:format">>
    \o (IF o.watermark THEN <<"sharp:composite">> ELSE <<>>)

\* processImage for a source that is not SVG: the pipeline calls of the try
\* block up to (not including) toFile, and the catch block
processImage ==
  /\ pc = "pi"
  /\ detectImageFormat(req.ext) # "svg"
  /\ \E thrown \in BOOLEAN :
       IF thrown
       THEN /\ trace' = trace \o <<"sharp:open", "sharp:throw">>
            /\ pc' = "jimp"
       ELSE IF req.target \in SharpFormats
       THEN /\ trace' = trace \o SharpCalls(req.opts)
            /\ pc' = "sharp_tofile"
       ELSE IF req.target \in {"gif", "bmp"}
       THEN /\ trace' = trace \o BuiltCalls(req.opts)
            /\ pc' = "jimp"
       ELSE IF req.target = "pdf"
       THEN /\ trace' = trace \o BuiltCalls(req.opts)
            /\ pc' = "ipdf_launch"
       ELSE \* throw new Error(`Unsupported output format`), caught below
            /\ trace' = trace \o BuiltCalls(req.opts) \o <<"unsupported:throw">>
            /\ pc' = "jimp"
  /\ UNCHANGED <<parked, platform, req, out, outDir, s1, s2, content, err, browser,
                 browsers, result, batch>>

\* await pipeline.toFile(outputPath) of processImage and its catch block
processImageToFile ==
  /\ pc = "sharp_tofile"
  /\ \E ok \in BOOLEAN, n \in 1..MaxSize :
       IF ok
       THEN /\ out' = [out EXCEPT ![req.okey] = File(n, "sharp", req.target)]
            /\ trace' = Append(trace, "sharp:toFile")
            /\ pc' = "ci_finish"
       ELSE /\ n = 1
            /\ trace' = trace \o <<"sharp:toFile", "sharp:throw">>
            /\ pc' = "jimp"
            /\ UNCHANGED out
  /\ UNCHANGED <<parked, platform, req, outDir, s1, s2, content, err, browser,
                 browsers, result, batch>>

\* processSvgImage: no try block, the format is selected by applySharpFormat
processSvgImage ==
  /\ pc = "pi"
  /\ detectImageFormat(req.ext) = "svg"
  /\ \E ok \in BOOLEAN, n \in 1..MaxSize :
       LET calls == <<"sharp:open">> \o Resize("sharp", req.opts)
                      \o (IF req.target \in SharpFormats THEN <<"sharp:format">> ELSE <<>>)
                      \o <<"sharp:toFile">> IN
       IF ok
       THEN /\ out' = [out EXCEPT ![req.okey] =
                         File(n, "sharp", IF req.target \in SharpFormats
                                          THEN req.target ELSE "inferred")]
            /\ trace' = trace \o calls
            /\ pc' = "ci_finish"
            /\ UNCHANGED <<result, batch>>
       ELSE /\ n = 1
            /\ trace' = trace \o calls \o <<"sharp:throw">>
            /\ Finish(ImageFailed("sharp error"))
            /\ UNCHANGED out
  /\ UNCHANGED <<parked, platform, req, outDir, s1, s2, content, err, browser, browsers>>

\* processWithJimp: read, resize, effects, write; the format follows the
\* output path, no watermark is composited
processWithJimp ==
  /\ pc = "jimp"
  /\ \E stage \in {"read", "write", "ok"}, n \in 1..MaxSize :
       LET calls == <<"jimp:read">> \o Resize("jimp", req.opts)
                      \o EffectCalls("jimp", req.opts) \o <<"jimp:write">> IN
       CASE stage = "ok" ->
              /\ out' = [out EXCEPT ![req.okey] = File(n, "jimp", "byext")]
              /\ trace' = trace \o calls
              /\ pc' = "ci_finish"
              /\ UNCHANGED <<result, batch>>
         [] stage = "write" ->
              /\ n = 1
              /\ trace' = trace \o calls \o <<"jimp:throw">>
              /\ Finish(ImageFailed("jimp write error"))
              /\ UNCHANGED out
         [] stage = "read" ->
              /\ n = 1
              /\ trace' = trace \o <<"jimp:read", "jimp:throw">>
              /\ Finish(ImageFailed("jimp read error"))
              /\ UNCHANGED out
  /\ UNCHANGED <<parked, platform, req, outDir, s1, s2, content, err, browser, browsers>>

\* convertImageToPdf
convertImageToPdfLaunch == Launch("ipdf_launch", "ipdf_page", "ipdf_finally")
convertImageToPdfNewPage == PageStep("ipdf_page", "ipdf_read", "ipdf_finally", "new page error")
convertImageToPdfReadFile == PageStep("ipdf_read", "ipdf_content", "ipdf_finally", "read error")
convertImageToPdfSetContent == PageStep("ipdf_content", "ipdf_emit", "ipdf_finally", "content load error")
convertImageToPdfEmit == Emit("ipdf_emit", "ipdf_finally")

\* finally block of convertImageToPdf; a rejection passes through
\* processImage (the promise is returned, not awaited) to convertImage
convertImageToPdfFinally ==
  /\ pc = "ipdf_finally"
  /\ CloseBrowser
  /\ err' = ""
  /\ IF err = "" THEN pc' = "ci_finish" /\ UNCHANGED <<result, batch>>
     ELSE Finish(ImageFailed(err))
  /\ UNCHANGED <<parked, platform, req, out, outDir, trace, s1, s2, content>>

\* Math.round(a / b) for b > 0: the nearest integer, a half going up
MathRound(a, b) == (2 * a + b) \div (2 * b)

\* (variant: a negative ratio is reported as zero)
compressionRatio_Clamped(originalSize, newSize) ==
  IF originalSize > 0
  THEN [kind |-> "finite",
        v |-> Max(0, MathRound((originalSize - newSize) * 10000, originalSize))]
  ELSE [kind |-> IF newSize > 0 THEN "-Infinity" ELSE "NaN", v |-> 0]

\* Math.round(((originalSize - newSize) / originalSize * 100) * 100) / 100,
\* in hundredths of a percent; a division by zero gives -Infinity or NaN
compressionRatio(originalSize, newSize) ==
  IF originalSize > 0
  THEN [kind |-> "finite",
        v |-> MathRound((originalSize - newSize) * 10000, originalSize)]
  ELSE [kind |-> IF newSize > 0 THEN "-Infinity" ELSE "NaN", v |-> 0]

\* the success result of convertImage
ImageSuccess(originalSize, newSize) ==
  [status |-> "returned", success |-> TRUE, prefix |-> "Successfully converted",
   cause |-> "", original_size |-> originalSize, new_size |-> newSize,
   compression_ratio |-> compressionRatio(originalSize, newSize)]

\* tail of convertImage: stat of the output and the success result
convertImageFinish ==
  /\ pc = "ci_finish"
  /\ Finish(ImageSuccess(req.osize, Out.size))
  /\ UNCHANGED <<parked, platform, req, out, outDir, trace, s1, s2, content, err,
                 browser, browsers>>

\* ------------------------------------------------------------ batch driver
\* directory entries: base name and (lowercased) extension
DirEntries ==
  {[base |-> "a", ext |-> ".jpg"], [base |-> "a", ext |-> ".png"],
   [base |-> "b", ext |-> ".svg"], [base |-> "b", ext |-> ".txt"]}

\* listings of at most MaxFiles distinct entries, in any order
Listings ==
  {l \in UNION {[1..n -> DirEntries] : n \in 0..MaxFiles} :
     \A i, j \in DOMAIN l : i # j => l[i] # l[j]}

BatchTargets == {"webp", "gif", "pdf", "xyz"}

\* the extension filter of batchConvertImages
ImageExts ==
  {".jpg", ".jpeg", ".png", ".webp", ".avif", ".tiff", ".tif", ".gif", ".bmp",
   ".svg", ".heic", ".heif"}

\* (variant: every directory entry is taken)
Filter_All(l) == l

RECURSIVE Filter(_)
Filter(l) ==
  IF l = <<>> THEN <<>>
  ELSE IF Head(l).ext \in ImageExts THEN <<Head(l)>> \o Filter(Tail(l))
  ELSE Filter(Tail(l))

\* (variant: the target extension is appended to the whole file name)
outputFileName_KeepExt(file, targetFormat) ==
  file.base \o file.ext \o "." \o targetFormat

\* the name of the output file of one batch entry
outputFileName(file, targetFormat) == file.base \o "." \o targetFormat

Thrown(cause) ==
  [status |-> "thrown", success |-> FALSE, prefix |-> "", cause |-> cause]

\* batchConvertImages up to the loop: ensureDir, readdir, filter
batchConvertImages ==
  /\ Free
  /\ \E dirExists \in BOOLEAN, l \in Listings, tgt \in BatchTargets,
        o \in ImageOptions :
       /\ req' = [api |-> "batchConvertImages", ext |-> "", target |-> tgt,
                  opts |-> o, okey |-> "out", opath |-> "out", osize |-> 0,
             exists |-> TRUE, data |-> <<>>]
       /\ out' = [k \in OutKeys |-> Absent]
       /\ Fresh
       /\ outDir' = TRUE
       /\ IF dirExists
          THEN /\ batch' = [NoBatch EXCEPT !.listing = l,
                                            !.files = Filter(l), !.i = 1]
               /\ result' = NoResult
               /\ pc' = "batch_loop"
          ELSE \* fs.readdir rejects outside of any try block
               /\ l = <<>>
               /\ batch' = NoBatch
               /\ result' = Thrown("ENOENT: no such file or directory, scandir")
               /\ pc' = "done"
  /\ UNCHANGED <<parked, platform, browsers>>

\* one turn of the for loop: the call of convertImage for the next file, or
\* the return of {success, failed, results} after the last one
batchLoop ==
  /\ pc = "batch_loop"
  /\ IF batch.i <= Len(batch.files)
     THEN \E exists \in BOOLEAN, n \in 1..MaxSize :
            LET file == batch.files[batch.i]
                outputPath == outputFileName(file, req.target)
            IN /\ req' = [req EXCEPT !.ext = file.ext, !.okey = file.base,
                                     !.opath = outputPath, !.osize = n,
                                     !.exists = exists]
               /\ trace' = <<>>
               /\ IF exists
                  THEN pc' = "pi" /\ UNCHANGED <<batch, result>>
                  ELSE /\ n = 1
                       /\ FinishAt(ImageFailed("Input file does not exist"),
                                   outputPath)
     ELSE /\ result' = Returned(TRUE, "batch", "")
          /\ pc' = "done"
          /\ UNCHANGED <<req, trace, batch>>
  /\ UNCHANGED <<parked, platform, out, outDir, s1, s2, content, err, browser, browsers>>

\* ---------------------------------------------------------- getDocumentInfo
\* the fields every DocumentInfo has; "absent" marks an optional field that
\* was not set
BaseInfo(format, size) ==
  [format |-> format, size |-> size, pages |-> "absent", title |-> "absent",
   author |-> "absent"]

InfoReturned(info) ==
  [status |-> "returned", success |-> TRUE, prefix |-> "", cause |-> "",
   info |-> info]

\* (variant: a failure of the metadata extraction leaves the call)
tryMetadata_Rethrow(info, ext, ok) ==
  LET format == info.format IN
  IF ~ok THEN Thrown("Unable to read image metadata")
  ELSE IF format \in imageFormats
  THEN InfoReturned([format |-> detectImageFormat(ext), size |-> info.size,
                     pages |-> "1", title |-> "basename",
                     author |-> "absent"])
  ELSE IF format = "pdf"
  THEN InfoReturned([info EXCEPT !.pages = "numpages", !.title = "Title",
                                 !.author = "Author"])
  ELSE IF format = "docx"
  THEN InfoReturned([info EXCEPT !.pages = "estimate"])
  ELSE InfoReturned(info)

\* the try block of getDocumentInfo and its empty catch; ok: the parser or
\* one of the two codecs could read the file
tryMetadata(info, ext, ok) ==
  LET format == info.format IN
  IF ~ok THEN InfoReturned(info)
  ELSE IF format \in imageFormats
  THEN InfoReturned([format |-> detectImageFormat(ext), size |-> info.size,
                     pages |-> "1", title |-> "basename",
                     author |-> "absent"])
  ELSE IF format = "pdf"
  THEN InfoReturned([info EXCEPT !.pages = "numpages", !.title = "Title",
                                 !.author = "Author"])
  ELSE IF format = "docx"
  THEN InfoReturned([info EXCEPT !.pages = "estimate"])
  ELSE InfoReturned(info)

\* getDocumentInfo up to the try block: fs.stat (outside of any try) and
\* detectFormat
getDocumentInfo ==
  /\ Free
  /\ \E ext \in Exts, exists \in BOOLEAN, n \in 0..MaxSize :
       /\ req' = [req EXCEPT !.api = "getDocumentInfo", !.ext = ext,
                             !.osize = n, !.exists = exists]
       /\ IF exists
          THEN /\ result' = [NoResult EXCEPT !.cause = ""]
               /\ pc' = "info"
          ELSE /\ n = 0
               /\ result' = Thrown("ENOENT: no such file or directory, stat")
               /\ pc' = "done"
  /\ UNCHANGED <<parked, platform, out, outDir, trace, s1, s2, content, err, browser,
                 browsers, batch>>

\* the metadata extraction: sharp then Jimp for an image, pdf-parse for a
\* pdf, mammoth for a docx, nothing for any other tag
getDocumentInfoMetadata ==
  /\ pc = "info"
  /\ \E sharpOk \in BOOLEAN, jimpOk \in BOOLEAN, parseOk \in BOOLEAN :
       LET format == detectFormat(req.ext)
           info == BaseInfo(format, req.osize)
           calls == IF format \in imageFormats
                    THEN <<"sharp:metadata">>
                           \o (IF sharpOk THEN <<>> ELSE <<"jimp:read">>)
                    ELSE IF format \in {"pdf", "docx"}
                    THEN <<"readFile", "parse">>
                    ELSE <<>>
           ok == IF format \in imageFormats THEN sharpOk \/ jimpOk
                 ELSE IF format \in {"pdf", "docx"} THEN parseOk
                 ELSE TRUE
       IN /\ sharpOk => jimpOk
          /\ format \in imageFormats => parseOk
          /\ format \notin imageFormats => sharpOk
          /\ trace' = calls \o (IF ok THEN <<>> ELSE <<"metadata:throw">>)
          /\ result' = tryMetadata(info, req.ext, ok)
  /\ pc' = "done"
  /\ UNCHANGED <<parked, platform, req, out, outDir, s1, s2, content, err, browser,
                 browsers, batch>>

\* getSupportedFormats: the matrix is built anew from literals on every call
getSupportedFormats ==
  /\ Free
  /\ req' = [req EXCEPT !.api = "getSupportedFormats"]
  /\ result' = [status |-> "returned", success |-> TRUE, prefix |-> "",
                cause |-> "", conversion_matrix |-> conversion_matrix]
  /\ pc' = "done"
  /\ UNCHANGED <<parked, platform, out, outDir, trace, s1, s2, content, err, browser,
                 browsers, batch>>

\* the caller takes the result and the converter is ready for the next call;
\* nothing of the finished request is kept by the engine
NextCall ==
  /\ pc = "done"
  /\ pc' = "idle"
  /\ req' = [api |-> "", ext |-> "", target |-> "", opts |-> NoOptions,
             okey |-> "out", opath |-> "out", osize |-> 0,
             exists |-> TRUE, data |-> <<>>]
  /\ out' = [k \in OutKeys |-> Absent]
  /\ outDir' = FALSE
  /\ Fresh
  /\ result' = NoResult
  /\ batch' = NoBatch
  /\ UNCHANGED <<parked, platform, browsers>>

\* ---------------------------------------------------------- specification
Next ==
  \/ convertDocument
  \/ convertDocxToPdfViaWordCom
  \/ WordComClose
  \/ convertDocxToPdfViaPython
  \/ PythonClose
  \/ PyClose
  \/ SubprocessNeverExits
  \/ readDocument
  \/ writeDocument
  \/ convertToPdfLaunch
  \/ convertToPdfNewPage
  \/ convertToPdfSetContent
  \/ convertToPdfEmit
  \/ convertToPdfFinally
  \/ convertImage
  \/ optimizeImage
  \/ convertDocumentImage
  \/ processImage
  \/ processImageToFile
  \/ processSvgImage
  \/ processWithJimp
  \/ convertImageToPdfLaunch
  \/ convertImageToPdfNewPage
  \/ convertImageToPdfReadFile
  \/ convertImageToPdfSetContent
  \/ convertImageToPdfEmit
  \/ convertImageToPdfFinally
  \/ convertImageFinish
  \/ batchConvertImages
  \/ batchLoop
  \/ getSupportedFormats
  \/ getDocumentInfo
  \/ getDocumentInfoMetadata
  \/ NextCall

Spec == Init /\ [][Next]_vars

\* ------------------------------------------- the metrics of convertImage
\* file sizes in bytes: the small ones, the sizes of the documented examples
\* and a large file that grows by one byte
RatioSizes == 1..MaxRatioSize \cup {800, 1000, 1200, 30000, 30001}

\* convertImage after processImage has written a file of n bytes from an
\* input of o bytes
InitRatio ==
  /\ platform = "linux"
  /\ pc = "ci_finish"
  /\ \E o \in RatioSizes, n \in RatioSizes :
       /\ req = [api |-> "convertImage", ext |-> ".png", target |-> "jpeg",
                 opts |-> NoOptions, okey |-> "out", opath |-> "out",
                 osize |-> o, exists |-> TRUE, data |-> <<>>]
       /\ out = [k \in OutKeys |->
                   IF k = "out"
                   THEN [exists |-> TRUE, size |-> n, by |-> "sharp",
                         enc |-> "jpeg", from |-> ".png", data |-> <<>>,
                         dims |-> <<0, 0>>, args |-> NoArgs]
                   ELSE Absent]
  /\ outDir = TRUE
  /\ trace = <<"sharp:open", "sharp:format", "sharp:toFile">>
  /\ s1 = NoStrategy
  /\ s2 = NoStrategy
  /\ content = NoContent
  /\ err = ""
  /\ browser = FALSE
  /\ browsers = 0
  /\ result = NoResult
  /\ batch = NoBatch
  /\ parked = NoCall

NextRatio ==
  \/ convertImageFinish
  \/ NextCall

SpecRatio == InitRatio /\ [][NextRatio]_vars

TypeOK ==
  /\ platform \in Platforms
  /\ browsers \in 0..1
  /\ result.status \in {"pending", "returned", "thrown", "hung"}
  /\ batch.success + batch.failed = Len(batch.results)

\* ------------------------------------- a chain of two convertDocument calls
Texts == UNION {[1..n -> Alphabet] : n \in 0..MaxLen}

\* the first hops of the chains: a text file to Markdown, a Markdown file to
\* text
FirstHops == {[ext |-> ".txt", target |-> "md"], [ext |-> ".md", target |-> "txt"]}

\* convertDocument(in, a, target) after its entry (the input exists, the
\* output directory is ensured, the tag is detected); the input file lies at
\* path "in"
InitRoundTrip ==
  /\ platform = "linux"
  /\ pc = "dispatch"
  /\ \E t \in Texts, hop \in FirstHops :
       /\ req = [api |-> "convertDocument", ext |-> hop.ext,
                 target |-> hop.target, opts |-> NoOptions, okey |-> "a",
                 opath |-> "a", osize |-> Len(t), exists |-> TRUE, data |-> t]
       /\ out = [k \in OutKeys |->
                   IF k = "in"
                   THEN [exists |-> TRUE, size |-> Len(t), by |-> "pre",
                         enc |-> detectFormat(hop.ext), from |-> "", data |-> t,
                         dims |-> <<0, 0>>, args |-> NoArgs]
                   ELSE Absent]
  /\ outDir = TRUE
  /\ trace = <<>>
  /\ s1 = NoStrategy
  /\ s2 = NoStrategy
  /\ content = NoContent
  /\ err = ""
  /\ browser = FALSE
  /\ browsers = 0
  /\ result = NoResult
  /\ batch = NoBatch
  /\ parked = NoCall

\* the caller's second call: convertDocument(a, b, tag of the first input),
\* up to the same point of its entry
convertBack ==
  /\ pc = "done"
  /\ req.okey = "a"
  /\ result.success
  /\ req' = [req EXCEPT !.ext = "." \o req.target, !.target = out["in"].enc,
                        !.okey = "b", !.opath = "b", !.osize = Out.size,
                        !.data = Out.data]
  /\ pc' = "dispatch"
  /\ Fresh
  /\ result' = NoResult
  /\ UNCHANGED <<parked, platform, out, outDir, browsers, batch>>

NextRoundTrip ==
  \/ readDocument
  \/ writeDocument
  \/ convertBack

SpecRoundTrip == InitRoundTrip /\ [][NextRoundTrip]_vars

\* --------------------------------------------- the geometry of a resize
InputSizes == {<<200, 100>>, <<100, 200>>, <<50, 50>>}
Lengths == {0, 60, 100}
Fits == {"", "cover", "contain", "fill", "inside", "outside"}

\* convertImage after its entry, for an input of a known raster size and a
\* request that gives a width or a height
InitResize ==
  /\ platform = "linux"
  /\ pc = "pi"
  /\ \E ext \in {".png", ".svg"}, tgt \in {"png", "gif"}, d \in InputSizes,
        w \in Lengths, h \in Lengths, fit \in Fits :
       /\ w # 0 \/ h # 0
       /\ req = [api |-> "convertImage", ext |-> ext, target |-> tgt,
                 opts |-> [resize |-> TRUE, effects |-> FALSE,
                           watermark |-> FALSE, width |-> w, height |-> h,
                           fit |-> fit],
                 okey |-> "out", opath |-> "out", osize |-> 1,
                 exists |-> TRUE, data |-> <<>>, iw |-> d[1], ih |-> d[2]]
  /\ out = [k \in OutKeys |-> Absent]
  /\ outDir = TRUE
  /\ trace = <<>>
  /\ s1 = NoStrategy
  /\ s2 = NoStrategy
  /\ content = NoContent
  /\ err = ""
  /\ browser = FALSE
  /\ browsers = 0
  /\ result = NoResult
  /\ batch = NoBatch
  /\ parked = NoCall

NextResize ==
  \/ processImage
  \/ processImageToFile
  \/ processSvgImage
  \/ processWithJimp
  \/ convertImageFinish

SpecResize == InitResize /\ [][NextResize]_vars

\* ------------------------------------ a conversion with numeric options
\* values of the numeric options: left out, the ends of the documented
\* range and a value inside it (quality 1-100, effort 0-6, opacity 0-1 in
\* tenths)
Qualities == {Unset, 1, 50, 100}
Efforts == {Unset, 0, 3, 6}
Opacities == {Unset, 0, 5, 10}

\* convertImage(in.png, out, tgt, {quality, effort, watermark: {text,
\* opacity}}) after its entry
InitOptions ==
  /\ platform = "linux"
  /\ pc = "pi"
  /\ \E tgt \in {"webp", "avif", "jpeg", "gif"}, wm \in BOOLEAN,
        q \in Qualities, e \in Efforts, op \in Opacities :
       /\ wm \/ op = Unset
       /\ req = [api |-> "convertImage", ext |-> ".png", target |-> tgt,
                 opts |-> [resize |-> FALSE, effects |-> FALSE,
                           watermark |-> wm, quality |-> q, effort |-> e,
                           opacity |-> op],
                 okey |-> "out", opath |-> "out", osize |-> 1,
                 exists |-> TRUE, data |-> <<>>]
  /\ out = [k \in OutKeys |-> Absent]
  /\ outDir = TRUE
  /\ trace = <<>>
  /\ s1 = NoStrategy
  /\ s2 = NoStrategy
  /\ content = NoContent
  /\ err = ""
  /\ browser = FALSE
  /\ browsers = 0
  /\ result = NoResult
  /\ batch = NoBatch
  /\ parked = NoCall

NextOptions ==
  \/ processImage
  \/ processImageToFile
  \/ processWithJimp
  \/ convertImageFinish

SpecOptions == InitOptions /\ [][NextOptions]_vars

\* ------------------------------------------- two calls on one converter
\* the locals of the call that is stepping
Locals ==
  [pc |-> pc, req |-> req, outDir |-> outDir, trace |-> trace, s1 |-> s1,
   s2 |-> s2, content |-> content, err |-> err, browser |-> browser,
   result |-> result]

\* a call that has passed its entry (input exists, directory ensured)
Accepted(api, ext, tgt, o, key, at) ==
  [pc |-> at,
   req |-> [api |-> api, ext |-> ext, target |-> tgt, opts |-> o,
            okey |-> key, opath |-> key, osize |-> 1, exists |-> TRUE,
            data |-> IF api = "convertDocument" THEN SampleText ELSE <<>>],
   outDir |-> TRUE, trace |-> <<>>, s1 |-> NoStrategy, s2 |-> NoStrategy,
   content |-> NoContent, err |-> "", browser |-> FALSE, result |-> NoResult]

\* the first call of the concurrent runs: a DOCX->PDF conversion or an
\* image conversion with a watermark
FirstCalls ==
  {Accepted("convertDocument", ".docx", "pdf", NoOptions, "a", "wordcom"),
   Accepted("convertImage", ".png", "webp",
            [NoOptions EXCEPT !.watermark = TRUE], "a", "pi")}

\* the second call: a text conversion, an image conversion, or a caller
\* that has not called yet
SecondCalls ==
  {Accepted("convertDocument", ".md", "html", NoOptions, "b", "dispatch"),
   Accepted("convertImage", ".png", "webp",
            [NoOptions EXCEPT !.watermark = TRUE], "b", "pi"),
   [Accepted("", "", "", NoOptions, "b", "idle") EXCEPT !.outDir = FALSE]}

InitConcurrent ==
  /\ platform = "win32"
  /\ \E c \in FirstCalls :
       /\ pc = c.pc /\ req = c.req /\ outDir = c.outDir /\ trace = c.trace
       /\ s1 = c.s1 /\ s2 = c.s2 /\ content = c.content /\ err = c.err
       /\ browser = c.browser /\ result = c.result
  /\ parked \in SecondCalls
  /\ out = [k \in OutKeys |-> Absent]
  /\ browsers = 0
  /\ batch = NoBatch

\* the event loop turns to the other call: every await is a point where the
\* other call's continuation may run
Switch ==
  /\ parked.pc # "none"
  /\ parked' = Locals
  /\ pc' = parked.pc /\ req' = parked.req /\ outDir' = parked.outDir
  /\ trace' = parked.trace /\ s1' = parked.s1 /\ s2' = parked.s2
  /\ content' = parked.content /\ err' = parked.err
  /\ browser' = parked.browser /\ result' = parked.result
  /\ UNCHANGED <<platform, out, browsers, batch>>

NextConcurrent ==
  \/ convertDocxToPdfViaWordCom
  \/ WordComClose
  \/ convertDocxToPdfViaPython
  \/ PythonClose
  \/ PyClose
  \/ SubprocessNeverExits
  \/ readDocument
  \/ writeDocument
  \/ convertToPdfLaunch
  \/ convertToPdfNewPage
  \/ convertToPdfSetContent
  \/ convertToPdfEmit
  \/ convertToPdfFinally
  \/ processImage
  \/ processImageToFile
  \/ processWithJimp
  \/ convertImageFinish
  \/ getSupportedFormats
  \/ Switch

SpecConcurrent == InitConcurrent /\ [][NextConcurrent]_vars

\* ------------------------------------------------- the CLI convert command
\* commander: a boolean option declared with the default value false
commanderFlag(given) == IF given THEN "true" ELSE "false"

\* a ?? b: b replaces a only when a is null or undefined
Nullish(a, b) == IF a = "undefined" THEN b ELSE a

\* convOpts as the convert command builds it from the parsed arguments
cliConvertOptions(given, ext, format) ==
  LET isWordToPdf == ext \in {".docx", ".doc"} /\ format = "pdf"
      preserve == commanderFlag(given)
  IN [resize |-> FALSE, effects |-> FALSE, watermark |-> FALSE,
      preserve_formatting |->
        IF isWordToPdf THEN Nullish(preserve, "true") ELSE preserve,
      prefer_chinese_fonts |->
        IF isWordToPdf THEN Nullish("undefined", "true") ELSE "undefined"]

\* the inputs of the convert command: extension of --input and --format
CliExts == {".docx", ".doc", ".md", ".txt"}
CliFormats == {"pdf", "html"}

\* the process has parsed its arguments and no conversion has started
InitCli ==
  /\ platform \in Platforms
  /\ pc = "cli"
  /\ req = [api |-> "", ext |-> "", target |-> "", opts |-> NoOptions,
            okey |-> "out", opath |-> "out", osize |-> 0,
            exists |-> TRUE, data |-> <<>>]
  /\ out = [k \in OutKeys |-> Absent]
  /\ outDir = FALSE
  /\ trace = <<>>
  /\ s1 = NoStrategy
  /\ s2 = NoStrategy
  /\ content = NoContent
  /\ err = ""
  /\ browser = FALSE
  /\ browsers = 0
  /\ result = NoResult
  /\ batch = NoBatch
  /\ parked = NoCall

\* the action of the convert command, up to the DOCX->PDF branch of the
\* convertDocument call it makes; flag records whether --preserve-formatting
\* was on the command line
cliConvert ==
  /\ pc = "cli"
  /\ \E given \in BOOLEAN, ext \in CliExts, tgt \in CliFormats,
        exists \in BOOLEAN, pre \in PreFiles, n \in 0..MaxSize :
       /\ req' = [api |-> "convertDocument", ext |-> ext, target |-> tgt,
                  opts |-> cliConvertOptions(given, ext, tgt), okey |-> "out",
                  opath |-> "out", osize |-> n, exists |-> exists,
                  data |-> SampleText, flag |-> given]
       /\ out' = [k \in OutKeys |-> IF k = "out" THEN pre ELSE Absent]
       /\ Fresh
       /\ batch' = NoBatch
       /\ IF ~exists
          THEN /\ result' = ConversionFailed("Input file does not exist")
               /\ outDir' = FALSE
               /\ pc' = "done"
          ELSE /\ result' = NoResult
               /\ outDir' = TRUE
               /\ pc' = IF detectFormat(ext) = "docx" /\ tgt = "pdf"
                        THEN "wordcom" ELSE "dispatch"
  /\ UNCHANGED <<parked, platform, browsers>>

NextCli ==
  \/ cliConvert
  \/ convertDocxToPdfViaWordCom
  \/ WordComClose
  \/ convertDocxToPdfViaPython
  \/ PythonClose
  \/ PyClose
  \/ SubprocessNeverExits
  \/ readDocument
  \/ writeDocument
  \/ convertToPdfLaunch
  \/ convertToPdfNewPage
  \/ convertToPdfSetContent
  \/ convertToPdfEmit
  \/ convertToPdfFinally

SpecCli == InitCli /\ [][NextCli]_vars

\* the convert command when every spawned subprocess exits or fails to
\* start: each step of the request that can run does run (the event loop
\* runs every continuation that is ready, and every 'error' or 'close'
\* event arrives)
NextExits ==
  \/ cliConvert
  \/ convertDocxToPdfViaWordCom
  \/ WordComClose
  \/ convertDocxToPdfViaPython
  \/ PythonClose
  \/ PyClose
  \/ readDocument
  \/ writeDocument
  \/ convertToPdfLaunch
  \/ convertToPdfNewPage
  \/ convertToPdfSetContent
  \/ convertToPdfEmit
  \/ convertToPdfFinally

SpecExits == InitCli /\ [][NextExits]_vars /\ WF_vars(NextExits)


\* ------------------------------------------------------------ properties
Has(e) == \E i \in DOMAIN trace : trace[i] = e
Count(e) == Cardinality({i \in DOMAIN trace : trace[i] = e})
Before(a, b) == \A i, j \in DOMAIN trace : (trace[i] = a /\ trace[j] = b) => i < j

Source == detectFormat(req.ext)

\* a finished convertDocument call whose input existed
DocumentDone == pc = "done" /\ req.api = "convertDocument" /\ outDir

\* no collaborator (file system, parser, codec, browser) failed in the request
CollaboratorsOk ==
  /\ ~Has("sharp:throw")
  /\ ~Has("jimp:throw")
  /\ result.cause \notin {"read error", "write error", "browser launch error",
                          "new page error", "content load error",
                          "pdf emission error"}

WrittenByRequest == Out.exists /\ Out.by # "pre"

\* C1: for every pair outside the conversion matrix, convertDocument on an
\* existing input returns success:false with an "unsupported" message and
\* writes no file at the output path.
C1_UnsupportedPairRejected ==
  (DocumentDone /\ CollaboratorsOk /\ ~InMatrix(Source, req.target))
    => /\ result.status = "returned"
       /\ ~result.success
       /\ result.cause = "Unsupported output format"
       /\ ~WrittenByRequest

\* the success was produced by a writer or encoder selected for the target
HandledForTarget ==
  \/ /\ result.prefix \in {"via Microsoft Word (COM)", "via DocumentAssistant script"}
     /\ req.target = "pdf"
  \/ Out.by = "writeFile" /\ Out.enc = req.target
  \/ Out.by = "puppeteer" /\ req.target = "pdf"
  \/ Out.by = "sharp" /\ Out.enc = req.target
  \/ Out.by = "jimp" /\ req.target \in {"gif", "bmp"}

\* C2: for every pair of the conversion matrix, convertDocument on a valid
\* (existing, nonempty) input whose collaborators do not fail is dispatched
\* to a writer or encoder for the target and returns success:true with a
\* nonempty output file.
C2_MatrixPairConverted ==
  (DocumentDone /\ CollaboratorsOk /\ req.osize > 0 /\ InMatrix(Source, req.target))
    => /\ result.success
       /\ Out.exists /\ Out.size > 0
       /\ HandledForTarget

\* C3: in a DOCX->PDF request the strategies start only in the order Word
\* automation, helper script, generic path, each after the one before has
\* failed, and none is started twice: the helper script is not executed
\* again after it has run and failed.
C3_StrategiesInOrderOnce ==
  /\ Count("cscript:spawn") <= 1
  /\ Before("cscript:spawn", "python:spawn")
  /\ Has("python:spawn") => s1.res = "false"
  /\ (Has("readFile") /\ Source = "docx" /\ req.target = "pdf")
       => (s1.res = "false" /\ s2.res = "false")
  /\ pc = "done" /\ result.prefix = "via Microsoft Word (COM)" => ~Has("python:spawn")
  /\ ~(Has("python:exitN") /\ (Has("py:exit0") \/ Has("py:exitN")))

\* C4: a DOCX->PDF strategy is reported successful only for output it wrote
\* itself, never for a file that lay at the target path before or that an
\* earlier, failed strategy left there.
C4_OwnOutputOnly ==
  /\ result.prefix = "via Microsoft Word (COM)" => Out.by = "cscript"
  /\ result.prefix = "via DocumentAssistant script" => Out.by \in {"python", "py"}

\* C7: no convert-style public call throws to its caller; every failure is a
\* returned result with success:false and the cause text in its message.
C7_NeverThrows ==
  /\ result.status # "thrown"
  /\ (result.status = "returned" /\ ~result.success) => result.cause # ""
  /\ \A i \in DOMAIN batch.results :
       ~batch.results[i].success => batch.results[i].cause # ""

\* C9: for every image source (SVG included) and target, a throw of the
\* primary codec is followed by exactly one run of the secondary codec on
\* the original input, and convertImage fails only if that run fails too.
C9_FallbackOnPrimaryFailure ==
  (pc = "done" /\ req.api # "batchConvertImages" /\ Has("sharp:throw"))
    => /\ Count("jimp:read") = 1
       /\ Before("sharp:throw", "jimp:read")
       /\ ~result.success => Has("jimp:throw")

\* C5: strategy 1 and strategy 2 each answer success exactly when the
\* subprocess exited with code 0 and the target exists with size > 0; the
\* 'via Microsoft Word (COM)' and 'via DocumentAssistant script' results are
\* returned only then, and strategy 1 is never attempted off win32.
C5_SuccessCriterion ==
  /\ s1.res = "true" <=> (s1.code = 0 /\ s1.ex /\ s1.sz > 0)
  /\ s2.res = "true" <=> (s2.code = 0 /\ s2.ex /\ s2.sz > 0)
  /\ result.prefix = "via Microsoft Word (COM)"
       => /\ s1.res = "true" /\ Has("cscript:exit0")
          /\ Out.exists /\ Out.size > 0
  /\ result.prefix = "via DocumentAssistant script"
       => /\ s2.res = "true" /\ (Has("python:exit0") \/ Has("py:exit0"))
          /\ Out.exists /\ Out.size > 0
  /\ platform # "win32" => ~Has("cscript:spawn")

\* strategy 1 ran and failed its gate with an empty file, strategy 2 passed
C5_Witness ==
  /\ pc = "done"
  /\ s1.code = 0 /\ s1.ex /\ s1.sz = 0 /\ s1.res = "false"
  /\ s2.res = "true"
  /\ result.prefix = "via DocumentAssistant script"

GenericCauses ==
  {"read error", "browser launch error", "new page error",
   "content load error", "pdf emission error"}

\* C6: when strategy 1 and strategy 2 have both failed, the request goes on
\* into the generic read + HTML-render path and returns success:true whenever
\* that path succeeds; a success:false comes only from the generic path.
C6_GenericPathAfterFailures ==
  (s1.res = "false" /\ s2.res = "false")
    => /\ pc \in {"dispatch", "write", "pdf_page", "pdf_content", "pdf_emit",
                  "pdf_finally", "done"}
       /\ pc # "dispatch" => Has("readFile")
       /\ (pc = "done" /\ ~result.success) => result.cause \in GenericCauses
       /\ (pc = "done" /\ Has("page.pdf"))
            => (result.success /\ Out.by = "puppeteer")

\* both subprocess strategies ran and failed, the generic path succeeded
C6_Witness ==
  /\ pc = "done"
  /\ s1.res = "false" /\ s1.code = 1
  /\ s2.res = "false" /\ s2.code = 1
  /\ result.success /\ result.prefix = "Successfully converted"
  /\ Out.by = "puppeteer"

BrowserSteps ==
  {"pdf_page", "pdf_content", "pdf_emit", "pdf_finally",
   "ipdf_page", "ipdf_read", "ipdf_content", "ipdf_emit", "ipdf_finally"}

\* C8: a browser launched by convertToPdf or convertImageToPdf is closed
\* before the call returns or throws, on every exit path; after any sequence
\* of conversions no launched browser remains open.
C8_BrowserReleased ==
  /\ browsers = (IF browser THEN 1 ELSE 0)
  /\ browsers > 0 => pc \in BrowserSteps

\* a request has failed at PDF emission after its browser was launched
C8_Witness ==
  /\ pc = "done"
  /\ Has("browser:launch")
  /\ result.cause = "pdf emission error"
  /\ browsers = 0

SharpEvents ==
  {"sharp:open", "sharp:resize", "sharp:effects", "sharp:format",
   "sharp:composite", "sharp:toFile"}
JimpEvents == {"jimp:read", "jimp:resize", "jimp:effects", "jimp:write"}

\* the calls of one codec appear in the trace in the order of their ranks
InRankOrder(events, rank) ==
  \A i, j \in DOMAIN trace :
    (i < j /\ trace[i] \in events /\ trace[j] \in events)
      => rank[trace[i]] < rank[trace[j]]

JimpRank ==
  [e \in JimpEvents |->
     CASE e = "jimp:read" -> 0 [] e = "jimp:resize" -> 1
       [] e = "jimp:effects" -> 2 [] e = "jimp:write" -> 5]

\* decode, resize, effects, watermark, encoder set-up, write
ClaimedRank ==
  [e \in SharpEvents |->
     CASE e = "sharp:open" -> 0 [] e = "sharp:resize" -> 1
       [] e = "sharp:effects" -> 2 [] e = "sharp:composite" -> 3
       [] e = "sharp:format" -> 4 [] e = "sharp:toFile" -> 5]

\* decode, resize, effects, encoder set-up, watermark, write
CodeRank ==
  [e \in SharpEvents |->
     CASE e = "sharp:open" -> 0 [] e = "sharp:resize" -> 1
       [] e = "sharp:effects" -> 2 [] e = "sharp:format" -> 3
       [] e = "sharp:composite" -> 4 [] e = "sharp:toFile" -> 5]

\* C10 (as stated): the stages are applied in the order decode, resize/fit,
\* effects, watermark composite, encode; the encoder is set up only after
\* effects and watermark have been added.
C10_EncoderAfterWatermark ==
  InRankOrder(SharpEvents, ClaimedRank) /\ InRankOrder(JimpEvents, JimpRank)

\* C10 (amended): the pipeline is assembled in the order decode, resize/fit,
\* effects, encoder set-up, watermark composite, and written last; resize
\* always precedes the watermark composite, the encoder is set up after
\* resize and effects but before the watermark is added.
C10_StageOrder ==
  InRankOrder(SharpEvents, CodeRank) /\ InRankOrder(JimpEvents, JimpRank)

\* a conversion with resize, effects and watermark was written by the
\* primary codec
C10_Witness ==
  /\ pc = "done" /\ result.success
  /\ Has("sharp:resize") /\ Has("sharp:effects") /\ Has("sharp:composite")
  /\ Has("sharp:toFile")
  /\ Out.by = "sharp"


\* a finished single image conversion (through any public call)
ImageDone ==
  /\ pc = "done"
  /\ \/ req.api \in {"convertImage", "optimizeImage"}
     \/ req.api = "convertDocument" /\ Source \in imageFormats
  /\ outDir

\* the transform was applied by the codec that wrote the output
Applied(call) ==
  \/ Out.by = "sharp" /\ Has("sharp:" \o call) /\ Has("sharp:toFile")
  \/ Out.by = "jimp" /\ Has("jimp:" \o call)

\* C11: whenever convertImage returns success:true, every transform the
\* options request (resize, effects, watermark) has been applied to the
\* written output, whatever the source, the target and the codec.
C11_RequestedTransformsApplied ==
  (ImageDone /\ result.success)
    => /\ req.opts.resize => Applied("resize")
       /\ req.opts.effects => Applied("effects")
       /\ req.opts.watermark => Applied("composite")

\* C12: for target gif or bmp and every image source format (SVG included)
\* the output is produced by the secondary codec: the primary codec never
\* writes it, and the secondary codec runs exactly once.
C12_GifBmpBySecondaryCodec ==
  (ImageDone /\ req.target \in {"gif", "bmp"}
     /\ detectImageFormat(req.ext) \in imageFormats)
    => /\ ~Has("sharp:toFile")
       /\ Count("jimp:read") = 1
       /\ result.success => Out.by = "jimp"


\* a batch call that has returned its report
BatchDone ==
  pc = "done" /\ req.api = "batchConvertImages" /\ result.status = "returned"

\* the entries of the listing with a supported extension, in listing order
Supported == SelectSeq(batch.listing, LAMBDA e : e.ext \in ImageExts)

\* C13: for a directory holding N files with a supported extension and M
\* others, the batch attempts exactly the N supported files, each once and in
\* listing order; succeeded + failed = N = the length of the result list,
\* whatever the mix of successes and failures.
C13_BatchCountsAddUp ==
  BatchDone
    => /\ Len(batch.results) = Len(Supported)
       /\ batch.success + batch.failed = Len(Supported)
       /\ batch.success =
            Cardinality({i \in DOMAIN batch.results : batch.results[i].success})
       /\ \A i \in DOMAIN batch.results :
            batch.results[i].output_path =
              outputFileName(Supported[i], req.target)

\* a failure of the first file followed by a success of the second
C13_Witness ==
  /\ BatchDone
  /\ Len(batch.listing) = 2
  /\ Len(batch.results) = 2
  /\ ~batch.results[1].success
  /\ batch.results[2].success


\* the attempts of the batch that wrote the output named by base name k
Writers(k) ==
  {i \in DOMAIN batch.results :
     batch.results[i].success /\ batch.files[i].base = k}

Last(S) == CHOOSE i \in S : \A j \in S : j <= i

\* C14: in a batch each output path is the input's base name with the
\* extension replaced by the target format; two inputs that map to the same
\* output path raise no error, are both attempted in listing order and give
\* separate results with the same output_path, and the file left at the path
\* is the one written by the later of them (the last write wins).
C14_CollisionLastWriteWins ==
  BatchDone
    => /\ Len(batch.results) = Len(batch.files)
       /\ \A i \in DOMAIN batch.results :
            batch.results[i].output_path =
              batch.files[i].base \o "." \o req.target
       /\ \A i, j \in DOMAIN batch.results :
            batch.files[i].base = batch.files[j].base
              => batch.results[i].output_path = batch.results[j].output_path
       /\ \A k \in OutKeys :
            Writers(k) # {}
              => /\ out[k].exists
                 /\ out[k].from = batch.files[Last(Writers(k))].ext

\* a.jpg and a.png both converted to a.webp: the file left is a.png's
C14_Witness ==
  /\ BatchDone
  /\ req.target = "webp"
  /\ Len(batch.files) = 2
  /\ batch.files[1] = [base |-> "a", ext |-> ".jpg"]
  /\ batch.files[2] = [base |-> "a", ext |-> ".png"]
  /\ batch.results[1].success /\ batch.results[2].success
  /\ batch.results[1].output_path = "a.webp"
  /\ batch.results[2].output_path = "a.webp"
  /\ out["a"].from = ".png"


\* a subprocess or a browser was started in the request
Started ==
  \/ Has("cscript:spawn") \/ Has("python:spawn") \/ Has("py:spawn")
  \/ Has("browser:launch")

\* C15: when a request is rejected as an unsupported conversion, the
\* rejection comes before any file-system effect: the parent directory of the
\* output has not been created, the input has not been read, and no
\* subprocess or browser has been started.
C15_RejectedBeforeEffects ==
  (pc = "done" /\ req.api = "convertDocument" /\ req.exists
     /\ ~InMatrix(Source, req.target)
     /\ result.cause = "Unsupported output format")
    => /\ ~outDir
       /\ ~Has("readFile")
       /\ ~Started

\* the tags that appear in the matrix as a source or as a target
MatrixTags ==
  DOMAIN conversion_matrix
    \cup UNION {conversion_matrix[t] : t \in DOMAIN conversion_matrix}

\* C16: every tag that detection produces and that is used to dispatch is a
\* source or a target of the matrix, or else the conversion fails with the
\* unsupported-format error: no input whose tag lies outside the matrix is
\* converted with success:true.
C16_TagsWithinMatrix ==
  (DocumentDone /\ Source \notin MatrixTags)
    => /\ ~result.success
       /\ CollaboratorsOk
            => result.cause \in {"Unsupported input format",
                                 "Unsupported output format"}


\* C17: when the input path does not exist, convertDocument and convertImage
\* return success:false with a message naming the missing input, and nothing
\* else has happened: no output directory created, no strategy attempted, no
\* codec or browser started, no file written.
C17_MissingInputFirst ==
  (req.api \in {"convertDocument", "convertImage", "optimizeImage"}
     /\ ~req.exists)
    => /\ pc = "done"
       /\ result.status = "returned"
       /\ ~result.success
       /\ result.cause = "Input file does not exist"
       /\ ~outDir
       /\ trace = <<>>
       /\ s1 = NoStrategy /\ s2 = NoStrategy
       /\ ~browser
       /\ \A k \in OutKeys : out[k].by \in {"", "pre"}

\* a DOCX->PDF request on a missing input, with a file already at the output
C17_Witness ==
  /\ pc = "done"
  /\ req.api = "convertDocument"
  /\ ~req.exists
  /\ Source = "docx" /\ req.target = "pdf"
  /\ Out.by = "pre"
  /\ result.cause = "Input file does not exist"


\* C18: when the subprocess of a DOCX->PDF strategy fails to start, exits
\* with a nonzero code or does not finish, the strategy yields failure (no
\* exception, no indefinite wait) and the orchestrator goes on to the next
\* strategy.
C18_SubprocessFailureAdvances ==
  /\ (Has("cscript:error") \/ Has("cscript:exitN") \/ Has("cscript:noexit"))
       => (s1.res = "false" /\ pc # "wordcom_run")
  /\ (Has("py:error") \/ Has("py:exitN") \/ Has("py:noexit")
        \/ Has("python:noexit"))
       => (s2.res = "false" /\ pc \notin {"python_run", "py_run", "hung"})
  /\ req.api = "convertDocument" => result.status # "thrown"


\* a successful single image conversion of an input of more than 0 bytes
RatioReported ==
  /\ pc = "done"
  /\ req.api = "convertImage"
  /\ result.success
  /\ req.osize > 0

\* h hundredths is (o - n) / o * 100 rounded to two decimals
NearestHundredth(h, o, n) ==
  LET d == h * o - (o - n) * 10000
  IN 2 * d <= o /\ 0 - 2 * d <= o

RatioExamples ==
  /\ (req.osize = 1000 /\ Out.size = 800)
       => result.compression_ratio.v = 2000
  /\ (req.osize = 1000 /\ Out.size = 1200)
       => result.compression_ratio.v = 0 - 2000

\* C19 as stated: the reported ratio is (o - n) / o * 100 rounded to two
\* decimals, negative whenever n > o; 1000 -> 800 gives 20.00 and
\* 1000 -> 1200 gives -20.00; original_size and new_size are o and n.
C19_RatioNegativeWheneverLarger ==
  RatioReported
    => /\ result.compression_ratio.kind = "finite"
       /\ NearestHundredth(result.compression_ratio.v, req.osize, Out.size)
       /\ Out.size > req.osize => result.compression_ratio.v < 0
       /\ RatioExamples
       /\ result.original_size = req.osize
       /\ result.new_size = Out.size

\* C19 amended: the reported ratio is (o - n) / o * 100 rounded to two
\* decimals and never clamped: for n > o it is never positive, and it is
\* negative as soon as the growth exceeds 0.005 percent (less rounds to 0).
C19_RatioRounded ==
  RatioReported
    => /\ result.compression_ratio.kind = "finite"
       /\ NearestHundredth(result.compression_ratio.v, req.osize, Out.size)
       /\ Out.size > req.osize => result.compression_ratio.v <= 0
       /\ (Out.size - req.osize) * 20000 > req.osize
            => result.compression_ratio.v < 0
       /\ RatioExamples
       /\ result.original_size = req.osize
       /\ result.new_size = Out.size

\* the documented example of a growing file
C19_Witness ==
  /\ RatioReported
  /\ req.osize = 1000
  /\ result.new_size = 1200
  /\ result.compression_ratio.v = 0 - 2000


\* the second call of a chain that began with a text file has succeeded
BackToTxt ==
  /\ pc = "done"
  /\ req.okey = "b"
  /\ result.success
  /\ out["in"].enc = "txt"

\* C20: converting a .txt file to md and that md file back to txt yields
\* exactly the original text: the md file holds the text verbatim, and the
\* txt written from it holds the Markdown source verbatim.
C20_TxtMdTxtRoundTrip ==
  BackToTxt
    => /\ req.ext = ".md" /\ req.target = "txt"
       /\ out["a"].data = out["in"].data
       /\ out["b"].data = out["in"].data

\* a text with a heading marker and an asterisk comes back unchanged
C20_Witness ==
  /\ BackToTxt
  /\ out["in"].data = <<"#", "a", "*">>
  /\ out["b"].data = <<"#", "a", "*">>
  /\ content.html = marked(<<"#", "a", "*">>)
  /\ turndown(content.html) # out["in"].data


\* a call of getSupportedFormats has returned
MatrixReturned == pc = "done" /\ req.api = "getSupportedFormats"

\* the text rows of the matrix
TextRows(m) ==
  /\ m["pdf"] = {"txt", "md", "html"}
  /\ m["docx"] = {"txt", "md", "html", "pdf"}
  /\ m["html"] = {"txt", "md", "pdf"}
  /\ m["md"] = {"html", "pdf", "txt"}
  /\ m["txt"] = {"html", "md", "pdf"}

\* the image source formats the statement names
NamedImageSources ==
  {"jpeg", "png", "webp", "avif", "tiff", "gif", "bmp", "svg", "heic"}

\* C21 as stated: the text rows are exactly the five documented rows, and
\* every image source format lists every other image format and pdf as a
\* permitted target.
C21_ImageRowsListEveryOther ==
  MatrixReturned
    => LET m == result.conversion_matrix
       IN /\ TextRows(m)
          /\ \A src \in NamedImageSources :
               /\ src \in DOMAIN m
               /\ "pdf" \in m[src]
               /\ \A t \in NamedImageSources \ {src} : t \in m[src]

\* C21 amended: the text rows are exactly the five documented rows, and
\* every image source row is the one list of encodable image formats plus
\* pdf; svg, heic and heif are sources only.
C21_MatrixRows ==
  MatrixReturned
    => LET m == result.conversion_matrix
       IN /\ TextRows(m)
          /\ "docx" \notin m["pdf"]
          /\ DOMAIN m = {"pdf", "docx", "html", "md", "txt", "jpg", "jpeg",
                         "png", "webp", "avif", "tiff", "gif", "bmp", "svg",
                         "heic", "heif"}
          /\ \A src \in NamedImageSources \cup {"jpg", "heif"} :
               m[src] = {"jpg", "jpeg", "png", "webp", "avif", "tiff", "gif",
                         "bmp", "pdf"}

C21_Witness ==
  /\ MatrixReturned
  /\ "pdf" \in result.conversion_matrix["svg"]
  /\ "svg" \notin result.conversion_matrix["png"]


\* C22: for every existing file getDocumentInfo returns a DocumentInfo with
\* the detected format and the file size even when the metadata extraction
\* fails: the failure is swallowed, pages, title and author are absent, and
\* the call does not throw.
C22_InfoDespiteMetadataFailure ==
  (pc = "done" /\ req.api = "getDocumentInfo" /\ req.exists)
    => /\ result.status = "returned"
       /\ result.info.format = detectFormat(req.ext)
       /\ result.info.size = req.osize
       /\ Has("metadata:throw")
            => /\ result.info.pages = "absent"
               /\ result.info.title = "absent"
               /\ result.info.author = "absent"

\* an image neither codec can read
C22_Witness ==
  /\ pc = "done"
  /\ req.api = "getDocumentInfo"
  /\ req.ext = ".png"
  /\ trace = <<"sharp:metadata", "jimp:read", "metadata:throw">>
  /\ result.status = "returned"
  /\ result.info.pages = "absent"


\* a finished conversion has its own output, written from its own input
OwnOutput(c) ==
  (c.pc = "done" /\ c.req.api \in {"convertDocument", "convertImage"}
     /\ c.result.success)
    => /\ out[c.req.okey].exists
       /\ out[c.req.okey].from = c.req.ext

\* a returned matrix is the one matrix
SameMatrix(c) ==
  (c.pc = "done" /\ c.req.api = "getSupportedFormats")
    => c.result.conversion_matrix = conversion_matrix

\* a step of the stepping call leaves the other call's locals and output as
\* they are; a switch moves the locals and changes nothing
Isolated ==
  \/ parked' = parked /\ out'[parked.req.okey] = out[parked.req.okey]
  \/ parked' = Locals /\ Locals' = parked /\ out' = out

\* C23: two conversions running concurrently on one converter share no
\* mutable engine state: in every interleaving no step of one call changes
\* the locals, the result or the output file of the other, each finished call
\* has the output it wrote itself, and getSupportedFormats returns the same
\* matrix whenever it is called.
C23_NoSharedState ==
  /\ [](OwnOutput(Locals) /\ OwnOutput(parked)
          /\ SameMatrix(Locals) /\ SameMatrix(parked))
  /\ [][Isolated]_vars

\* both calls have finished with success, each with its own output
C23_Witness ==
  /\ pc = "done" /\ parked.pc = "done"
  /\ req.ext = ".docx" /\ parked.req.ext = ".png"
  /\ result.success /\ parked.result.success
  /\ out[req.okey].by = "puppeteer"
  /\ out[parked.req.okey].by = "jimp"


\* the fixed extension table of the document detection
DocumentTable ==
  [e \in {".pdf", ".docx", ".doc", ".html", ".htm", ".md", ".markdown",
          ".txt"} |->
     CASE e = ".pdf" -> "pdf"
       [] e = ".docx" -> "docx"
       [] e = ".doc" -> "doc"
       [] e \in {".html", ".htm"} -> "html"
       [] e \in {".md", ".markdown"} -> "md"
       [] e = ".txt" -> "txt"]

\* the fixed extension table of the image formats
ImageTable ==
  [e \in {".jpg", ".jpeg", ".png", ".webp", ".avif", ".tiff", ".tif", ".gif",
          ".bmp", ".svg", ".heic", ".heif"} |->
     CASE e \in {".jpg", ".jpeg"} -> "jpeg"
       [] e \in {".tiff", ".tif"} -> "tiff"
       [] e = ".png" -> "png"
       [] e = ".webp" -> "webp"
       [] e = ".avif" -> "avif"
       [] e = ".gif" -> "gif"
       [] e = ".bmp" -> "bmp"
       [] e = ".svg" -> "svg"
       [] e = ".heic" -> "heic"
       [] e = ".heif" -> "heif"]

\* the tag expected of the general detection for extension e, with the
\* default tag dflt
ExpectedTag(e, dflt) ==
  IF e \in DOMAIN DocumentTable THEN DocumentTable[e]
  ELSE IF e \in DOMAIN ImageTable THEN ImageTable[e]
  ELSE IF e = ".ico" THEN "vnd.microsoft.icon"
  ELSE IF e = ".dotx" THEN "docx"
  ELSE IF e = ".xhtml" THEN "html"
  ELSE dflt

\* the tag expected of the image detection
ExpectedImageTag(e, dflt) ==
  IF e \in DOMAIN ImageTable THEN ImageTable[e]
  ELSE IF e = ".ico" THEN "vnd.microsoft.icon"
  ELSE dflt

\* the general detection has answered (in getDocumentInfo)
Detected == pc = "done" /\ req.api = "getDocumentInfo" /\ req.exists
\* the image detection has answered (in optimizeImage)
ImageDetected == pc # "idle" /\ req.api = "optimizeImage"

\* C24 as stated: detection always returns a tag: the tag of the extension
\* table, else the tag derived from the content type, else the default text
\* tag 'txt' - for the general and for the image detection alike.
C24_DefaultTxtEverywhere ==
  /\ Detected => result.info.format = ExpectedTag(req.ext, "txt")
  /\ ImageDetected => req.target = ExpectedImageTag(req.ext, "txt")

\* C24 amended: the same, except that the image detection's default tag is
\* 'unknown'.
C24_DetectionTotal ==
  /\ Detected
       => /\ result.status = "returned"
          /\ result.info.format = ExpectedTag(req.ext, "txt")
  /\ ImageDetected => req.target = ExpectedImageTag(req.ext, "unknown")

\* an extension only the content-type lookup knows
C24_Witness ==
  /\ Detected
  /\ req.ext = ".ico"
  /\ result.info.format = "vnd.microsoft.icon"


\* C25: the md write stage emits the existing Markdown text whenever the
\* source is Markdown, and runs the HTML->Markdown transform only when HTML
\* is the only markup: a Markdown source written to an md target is output
\* unchanged.
C25_MarkdownPreferred ==
  (DocumentDone /\ req.target = "md" /\ result.success)
    => /\ Source = "md" => Out.data = req.data
       /\ Source \in {"html", "docx"} => Out.data = turndown(content.html)
       /\ Source \in {"txt", "pdf"} => Out.data = req.data


\* a conversion of SpecResize has succeeded
Resized == pc = "done" /\ result.success /\ "iw" \in DOMAIN req

\* C26: width=100, height=100, fit=cover yields an output of exactly
\* 100x100 whenever the conversion succeeds, on every path; more generally
\* the requested fit mode determines the output dimensions on every path.
C26_FitDeterminesSize ==
  Resized
    => /\ (req.opts.width = 100 /\ req.opts.height = 100
             /\ req.opts.fit = "cover")
            => Out.dims = <<100, 100>>
       /\ (req.opts.width # 0 /\ req.opts.height # 0 /\ req.opts.fit # "")
            => Out.dims = sharpResize(req.iw, req.ih, req.opts.width,
                                      req.opts.height, req.opts.fit)


\* C27: when the CLI convert command is run for a .docx/.doc input with
\* target pdf and without --preserve-formatting, the options handed to
\* convertDocument have preserve_formatting = true, and the generic PDF write
\* path renders the structured HTML extracted from the document instead of
\* re-rendering its plain text.
C27_PreserveFormattingDefault ==
  ("flag" \in DOMAIN req /\ ~req.flag /\ req.ext \in {".docx", ".doc"}
     /\ req.target = "pdf")
    => /\ req.opts.preserve_formatting = "true"
       /\ (pc = "done" /\ result.success /\ Out.by = "puppeteer"
             /\ content.html # <<>>)
            => Out.data = content.html


\* C28: provided every spawned subprocess eventually exits or fails to
\* start, each DOCX->PDF strategy attempt eventually resolves to success or
\* failure and convertDocument eventually returns a result; an error raised
\* while the target file is checked after the Word-automation process has
\* exited does not leave the request pending forever.
C28_RequestEventuallyReturns ==
  /\ (pc = "wordcom_run") ~> (s1.res \in {"true", "false"})
  /\ (pc \in {"python_run", "py_run"}) ~> (s2.res \in {"true", "false"})
  /\ (req.api = "convertDocument") ~> (result.status = "returned")


\* a convertImage call for a non-SVG source that exists, with a target tag
\* no encoder is selected for
UnsupportedTarget ==
  /\ req.api = "convertImage"
  /\ req.exists
  /\ detectImageFormat(req.ext) \notin {"svg", "unknown"}
  /\ req.target \notin SharpFormats \cup {"gif", "bmp", "pdf"}

\* C29: for a non-SVG image source and a target tag outside the supported
\* output tags, convertImage fails with 'Unsupported output format' without
\* running a codec and without writing to the output path; the error does
\* not start the secondary-codec fallback.
C29_UnsupportedTargetFailsAtOnce ==
  UnsupportedTarget
    => /\ pc # "jimp"
       /\ ~Has("jimp:read")
       /\ Out.by \notin {"sharp", "jimp"}
       /\ pc = "done"
            => (~result.success /\ result.cause = "Unsupported output format")


\* a conversion that states its numeric options was written by the primary
\* codec
Encoded ==
  /\ pc = "done"
  /\ result.success
  /\ "effort" \in DOMAIN req.opts
  /\ Out.by = "sharp"

\* what reaches the encoder for an option value v with default d when a
\* supplied value is passed on unchanged
Passed(v, d) == IF v = Unset THEN d ELSE v

\* C30: every numeric option supplied inside its documented range reaches
\* the encoder or compositor unchanged (an effort of 0 is passed as 0, a
\* watermark opacity of 0 as 0); the defaults 80, 4 and 0.8 are used only
\* when the option is absent.
C30_NumericOptionsUnchanged ==
  Encoded
    => /\ Out.args.quality = Passed(req.opts.quality, DefaultQuality)
       /\ req.target \in {"webp", "avif"}
            => Out.args.effort = Passed(req.opts.effort, DefaultEffort)
       /\ req.opts.watermark
            => Out.args.opacity = Passed(req.opts.opacity, DefaultOpacity)

====
